---- MODULE Spec2Model ----
(***************************************************************************)
(* The Deneb BeaconState of crates/common/consensus/src/deneb/             *)
(* beacon_state.rs: the state record, its queries and its mutating         *)
(* operations, each as an operator from a state record to a state record   *)
(* (and a result), and one action per operation.                           *)
(*                                                                         *)
(* Integers: TLC's integers are 32 bits wide, the source's are u64.        *)
(*  - Gwei amounts are counted in units of 1 953 125 Gwei, so that         *)
(*    EFFECTIVE_BALANCE_INCREMENT (10^9 Gwei) is 512 units and             *)
(*    MAX_EFFECTIVE_BALANCE (32 * 10^9 Gwei) is 16384 units.               *)
(*  - FAR_FUTURE_EPOCH (u64::MAX) is the largest integer of the model.     *)
(* No operation of the model reaches a value at which the u64 arithmetic   *)
(* of the source would overflow.                                           *)
(***************************************************************************)
EXTENDS Integers, Sequences, FiniteSets, TLC

(***************************************************************************)
(* Constants of fork_choice::helpers::constants (mainnet preset), imported *)
(* at beacon_state.rs:27-38.                                               *)
(***************************************************************************)
GENESIS_EPOCH == 0

FAR_FUTURE_EPOCH == 2147483647

SLOTS_PER_EPOCH == 32

SLOTS_PER_HISTORICAL_ROOT == 8192

EPOCHS_PER_SLASHINGS_VECTOR == 8192

MAX_SEED_LOOKAHEAD == 4

MIN_VALIDATOR_WITHDRAWABILITY_DELAY == 256

MIN_PER_EPOCH_CHURN_LIMIT == 4

CHURN_LIMIT_QUOTIENT == 65536

EFFECTIVE_BALANCE_INCREMENT == 512

MAX_EFFECTIVE_BALANCE == 16384

MAX_RANDOM_BYTE == 255

MIN_SLASHING_PENALTY_QUOTIENT == 128

WHISTLEBLOWER_REWARD_QUOTIENT == 512

PROPOSER_WEIGHT == 8

WEIGHT_DENOMINATOR == 64

TIMELY_SOURCE_FLAG_INDEX == 0

TIMELY_TARGET_FLAG_INDEX == 1

TIMELY_HEAD_FLAG_INDEX == 2

INACTIVITY_SCORE_BIAS == 4

INACTIVITY_SCORE_RECOVERY_RATE == 16

MIN_EPOCHS_TO_INACTIVITY_PENALTY == 4

INACTIVITY_PENALTY_QUOTIENT_ALTAIR == 50331648

MIN_ATTESTATION_INCLUSION_DELAY == 1

(***************************************************************************)
(* Bounds of the model.                                                    *)
(***************************************************************************)
\* Length of the validator registry of the general specification.
NumValidators == 3

\* Length of the validator registry of the exit-queue specification.
NumQueueValidators == 5

\* Number of calls the driver makes in one behaviour of the general
\* specification, and of the exit-queue specification.
MaxCalls == 2

MaxQueueCalls == 6

\* Validators of the exit queue with exits of before.
NumExitValidators == 6

\* Epochs a finalizing chain advances by before the slot is held.
MaxEpochs == 2

\* Queries of a behaviour that asks only.
MaxQueries == 1

(***************************************************************************)
(* Small helpers of the model.                                             *)
(***************************************************************************)
Max(a, b) == IF a >= b THEN a ELSE b

Min(a, b) == IF a <= b THEN a ELSE b

\* u64::saturating_sub
saturating_sub(a, b) == IF a >= b THEN a - b ELSE 0

\* A FixedVector (ring) is kept as the function of its non-zero entries:
\* every index outside the function's domain holds zero.
RingGet(ring, i) == IF i \in DOMAIN ring THEN ring[i] ELSE 0

RingSet(ring, i, value) ==
    [j \in (IF value = 0 THEN DOMAIN ring \ {i} ELSE DOMAIN ring \cup {i}) |->
        IF j = i THEN value ELSE ring[j]]

\* Lists are functions on 0 .. len-1, indexed as in the source.
ListLen(list) == Cardinality(DOMAIN list)

InRange(list, index) == index \in DOMAIN list

(***************************************************************************)
(* The state: the BeaconState record, the record before the last call,     *)
(* the last call with its arguments and result, and the number of calls.   *)
(***************************************************************************)
VARIABLES state, pre, call, calls

vars == <<state, pre, call, calls>>

(***************************************************************************)
(* Collaborators (crate::misc, crate::helpers).                            *)
(***************************************************************************)
compute_epoch_at_slot(slot) == slot \div SLOTS_PER_EPOCH

compute_start_slot_at_epoch(epoch) == epoch * SLOTS_PER_EPOCH

compute_activation_exit_epoch(epoch) == epoch + 1 + MAX_SEED_LOOKAHEAD

is_active_validator(v, epoch) == v.activation_epoch <= epoch /\ epoch < v.exit_epoch

(***************************************************************************)
(* Epoch queries.                                                          *)
(***************************************************************************)
get_current_epoch(s) == compute_epoch_at_slot(s.slot)

get_previous_epoch(s) ==
    LET current_epoch == get_current_epoch(s)
    IN  IF current_epoch = GENESIS_EPOCH THEN GENESIS_EPOCH ELSE current_epoch - 1

\* The ordered Vec of the indices of the validators active at epoch.
RECURSIVE ActiveFrom(_, _, _)
ActiveFrom(s, epoch, i) ==
    IF i >= ListLen(s.validators) THEN <<>>
    ELSE IF is_active_validator(s.validators[i], epoch)
         THEN <<i>> \o ActiveFrom(s, epoch, i + 1)
         ELSE ActiveFrom(s, epoch, i + 1)

get_active_validator_indices(s, epoch) == ActiveFrom(s, epoch, 0)

get_validator_churn_limit(s) ==
    LET active_validator_indices == get_active_validator_indices(s, get_current_epoch(s))
    IN  Max(MIN_PER_EPOCH_CHURN_LIMIT, Len(active_validator_indices) \div CHURN_LIMIT_QUOTIENT)

(***************************************************************************)
(* Balance mutation primitives.                                            *)
(***************************************************************************)
increase_balance(s, index, delta) ==
    IF InRange(s.balances, index)
    THEN [s EXCEPT !.balances[index] = @ + delta]
    ELSE s

\* The same call at the full width of a u64.  Elsewhere balances are
\* numbers far below 2^64, for which `+=` is the sum; here a u64 is its four
\* 16-bit limbs, least significant first, so that the sum can leave the
\* word.  u64_add gives the 64 low bits of the sum and whether a bit was
\* carried out of them.
LimbBase == 65536

u64_add(a, b) ==
    LET s1 == a[1] + b[1]
        s2 == a[2] + b[2] + (s1 \div LimbBase)
        s3 == a[3] + b[3] + (s2 \div LimbBase)
        s4 == a[4] + b[4] + (s3 \div LimbBase)
    IN  [value |-> <<s1 % LimbBase, s2 % LimbBase, s3 % LimbBase, s4 % LimbBase>>,
         overflow |-> s4 \div LimbBase > 0]

\* `*balance += delta` panics on overflow in a build with overflow checks
\* and wraps in a build without them.
increase_balance_u64(s, index, delta, overflow_checks) ==
    IF InRange(s.balances, index)
    THEN LET sum == u64_add(s.balances[index], delta)
         IN  IF sum.overflow /\ overflow_checks
             THEN [state |-> s, result |-> "Panic"]
             ELSE [state |-> [s EXCEPT !.balances[index] = sum.value], result |-> "Ok"]
    ELSE [state |-> s, result |-> "Ok"]

\* The source computes balance.saturating_sub(delta) and drops the value:
\* `let _ = balance.saturating_sub(delta);`. Nothing is written.
decrease_balance(s, index, delta) ==
    IF InRange(s.balances, index)
    THEN LET unused == saturating_sub(s.balances[index], delta) IN s
    ELSE s

(***************************************************************************)
(* The exit queue.                                                         *)
(***************************************************************************)
SetMax(S) == CHOOSE x \in S : \A y \in S : y <= x

\* Variant: a validator that is already exiting is queued again.
initiate_validator_exit_again(s, index) ==
    IF index >= ListLen(s.validators) THEN s
    ELSE
      LET exit_epochs ==
              {s.validators[i].exit_epoch :
                  i \in {j \in DOMAIN s.validators :
                            s.validators[j].exit_epoch # FAR_FUTURE_EPOCH}}
              \cup {compute_activation_exit_epoch(get_current_epoch(s))}
          max_epoch == SetMax(exit_epochs)
          exit_queue_churn ==
              Cardinality({i \in DOMAIN s.validators :
                              s.validators[i].exit_epoch = max_epoch})
          exit_queue_epoch ==
              IF exit_queue_churn >= get_validator_churn_limit(s)
              THEN max_epoch + 1
              ELSE max_epoch
      IN  [s EXCEPT !.validators[index] =
                [@ EXCEPT !.exit_epoch = exit_queue_epoch,
                          !.withdrawable_epoch =
                              exit_queue_epoch + MIN_VALIDATOR_WITHDRAWABILITY_DELAY]]

\* Variant: the queue epoch advances only once the churn exceeds the limit.
initiate_validator_exit_late(s, index) ==
    IF index >= ListLen(s.validators) THEN s
    ELSE IF s.validators[index].exit_epoch # FAR_FUTURE_EPOCH THEN s
    ELSE
      LET exit_epochs ==
              {s.validators[i].exit_epoch :
                  i \in {j \in DOMAIN s.validators :
                            s.validators[j].exit_epoch # FAR_FUTURE_EPOCH}}
              \cup {compute_activation_exit_epoch(get_current_epoch(s))}
          max_epoch == SetMax(exit_epochs)
          exit_queue_churn ==
              Cardinality({i \in DOMAIN s.validators :
                              s.validators[i].exit_epoch = max_epoch})
          exit_queue_epoch ==
              IF exit_queue_churn > get_validator_churn_limit(s)
              THEN max_epoch + 1
              ELSE max_epoch
      IN  [s EXCEPT !.validators[index] =
                [@ EXCEPT !.exit_epoch = exit_queue_epoch,
                          !.withdrawable_epoch =
                              exit_queue_epoch + MIN_VALIDATOR_WITHDRAWABILITY_DELAY]]

\* Variant: the queue starts at the current epoch, not at its activation
\* exit epoch.
initiate_validator_exit_now(s, index) ==
    IF index >= ListLen(s.validators) THEN s
    ELSE IF s.validators[index].exit_epoch # FAR_FUTURE_EPOCH THEN s
    ELSE
      LET exit_epochs ==
              {s.validators[i].exit_epoch :
                  i \in {j \in DOMAIN s.validators :
                            s.validators[j].exit_epoch # FAR_FUTURE_EPOCH}}
              \cup {get_current_epoch(s)}
          max_epoch == SetMax(exit_epochs)
          exit_queue_churn ==
              Cardinality({i \in DOMAIN s.validators :
                              s.validators[i].exit_epoch = max_epoch})
          exit_queue_epoch ==
              IF exit_queue_churn >= get_validator_churn_limit(s)
              THEN max_epoch + 1
              ELSE max_epoch
      IN  [s EXCEPT !.validators[index] =
                [@ EXCEPT !.exit_epoch = exit_queue_epoch,
                          !.withdrawable_epoch =
                              exit_queue_epoch + MIN_VALIDATOR_WITHDRAWABILITY_DELAY]]

initiate_validator_exit(s, index) ==
    IF index >= ListLen(s.validators) THEN s
    ELSE IF s.validators[index].exit_epoch # FAR_FUTURE_EPOCH THEN s
    ELSE
      LET exit_epochs ==
              {s.validators[i].exit_epoch :
                  i \in {j \in DOMAIN s.validators :
                            s.validators[j].exit_epoch # FAR_FUTURE_EPOCH}}
              \cup {compute_activation_exit_epoch(get_current_epoch(s))}
          max_epoch == SetMax(exit_epochs)
          exit_queue_churn ==
              Cardinality({i \in DOMAIN s.validators :
                              s.validators[i].exit_epoch = max_epoch})
          exit_queue_epoch ==
              IF exit_queue_churn >= get_validator_churn_limit(s)
              THEN max_epoch + 1
              ELSE max_epoch
      IN  [s EXCEPT !.validators[index] =
                [@ EXCEPT !.exit_epoch = exit_queue_epoch,
                          !.withdrawable_epoch =
                              exit_queue_epoch + MIN_VALIDATOR_WITHDRAWABILITY_DELAY]]

(***************************************************************************)
(* Proposer selection.  The seed of get_beacon_proposer_index is a hash    *)
(* chain over the randao ring, the epoch and the slot, none of which an    *)
(* operation of this file writes: the state keeps the seed itself, as the  *)
(* two things the hash-derived collaborators give for it:                  *)
(*   shift : compute_shuffled_index(i, n, seed) = (i + shift) % n, a       *)
(*           permutation of 0 .. n-1;                                      *)
(*   bytes : hash(seed ++ (i / 32))[i % 32] for i = 0, 1, ..., up to the   *)
(*           first zero byte (which every candidate passes).               *)
(***************************************************************************)
compute_shuffled_index(index, index_count, seed) == (index + seed.shift) % index_count

random_byte_at(seed, i) == seed.bytes[i + 1]

get_seed(s) == s.proposer_seed

\* Variant: a candidate needs more than its share of the random byte.
accepts_above(effective_balance, random_byte) ==
    effective_balance * MAX_RANDOM_BYTE > MAX_EFFECTIVE_BALANCE * random_byte

\* The acceptance test of the rejection-sampling loop.
accepts(effective_balance, random_byte) ==
    effective_balance * MAX_RANDOM_BYTE >= MAX_EFFECTIVE_BALANCE * random_byte

\* Variant: the loop returns the shuffled position, not the index there.
RECURSIVE proposer_loop_position(_, _, _, _)
proposer_loop_position(s, indices, seed, i) ==
    LET total == Len(indices)
        position == compute_shuffled_index(i % total, total, seed)
        candidate_index == indices[position + 1]
        random_byte == random_byte_at(seed, i)
        effective_balance == s.validators[candidate_index].effective_balance
    IN  IF accepts(effective_balance, random_byte)
        THEN position
        ELSE proposer_loop_position(s, indices, seed, i + 1)

\* The loop of compute_proposer_index from iteration i on.
RECURSIVE proposer_loop(_, _, _, _)
proposer_loop(s, indices, seed, i) ==
    LET total == Len(indices)
        candidate_index == indices[compute_shuffled_index(i % total, total, seed) + 1]
        random_byte == random_byte_at(seed, i)
        effective_balance == s.validators[candidate_index].effective_balance
    IN  IF accepts(effective_balance, random_byte)
        THEN candidate_index
        ELSE proposer_loop(s, indices, seed, i + 1)

compute_proposer_index(s, indices, seed) ==
    IF indices = <<>>
    THEN [result |-> "EmptyIndexSet", index |-> 0]
    ELSE [result |-> "Ok", index |-> proposer_loop(s, indices, seed, 0)]

get_beacon_proposer_index(s) ==
    LET epoch == get_current_epoch(s)
        seed == get_seed(s)
        indices == get_active_validator_indices(s, epoch)
    IN  compute_proposer_index(s, indices, seed)

(***************************************************************************)
(* Slashing.  whistleblower_index is None or Some(index).  The result is   *)
(* "Ok" or the error the call returns; the record is the one the call      *)
(* leaves behind, also when it returns an error.                           *)
(***************************************************************************)
\* Option<u64>
None == <<>>

Some(x) == <<x>>

unwrap_or(option, default) == IF option = None THEN default ELSE option[1]

\* Variant: the withdrawable epoch is lowered to the smaller of the two.
slash_mark_min(s, slashed_index, epoch) ==
    [s EXCEPT !.validators[slashed_index] =
        [@ EXCEPT !.slashed = TRUE,
                  !.withdrawable_epoch =
                      Min(@, epoch + EPOCHS_PER_SLASHINGS_VECTOR)]]

\* Variant: the slashed flag is flipped, not set.
slash_mark_flip(s, slashed_index, epoch) ==
    [s EXCEPT !.validators[slashed_index] =
        [@ EXCEPT !.slashed = ~@,
                  !.withdrawable_epoch =
                      Max(@, epoch + EPOCHS_PER_SLASHINGS_VECTOR)]]

slash_mark(s, slashed_index, epoch) ==
    [s EXCEPT !.validators[slashed_index] =
        [@ EXCEPT !.slashed = TRUE,
                  !.withdrawable_epoch =
                      Max(@, epoch + EPOCHS_PER_SLASHINGS_VECTOR)]]

\* Variant: the ring slot of the next epoch is written.
slash_accumulate_next(s, epoch, validator_effective_balance) ==
    LET i == (epoch + 1) % EPOCHS_PER_SLASHINGS_VECTOR
    IN  [s EXCEPT !.slashings =
            RingSet(@, i, RingGet(@, i) + validator_effective_balance)]

slash_accumulate(s, epoch, validator_effective_balance) ==
    LET i == epoch % EPOCHS_PER_SLASHINGS_VECTOR
    IN  [s EXCEPT !.slashings =
            RingSet(@, i, RingGet(@, i) + validator_effective_balance)]

slash_penalty(s, slashed_index, validator_effective_balance) ==
    decrease_balance(s, slashed_index,
                     validator_effective_balance \div MIN_SLASHING_PENALTY_QUOTIENT)

whistleblower_reward_of(validator_effective_balance) ==
    validator_effective_balance \div WHISTLEBLOWER_REWARD_QUOTIENT

proposer_reward_of(whistleblower_reward) ==
    (whistleblower_reward * PROPOSER_WEIGHT) \div WEIGHT_DENOMINATOR

\* Variant: the whistleblower is credited with the whole reward.
slash_rewards_whole(s, proposer_index, whistleblower_index, validator_effective_balance) ==
    LET whistleblower == unwrap_or(whistleblower_index, proposer_index)
        whistleblower_reward == whistleblower_reward_of(validator_effective_balance)
        proposer_reward == proposer_reward_of(whistleblower_reward)
    IN  increase_balance(increase_balance(s, proposer_index, proposer_reward),
                         whistleblower, whistleblower_reward)

slash_rewards(s, proposer_index, whistleblower_index, validator_effective_balance) ==
    LET whistleblower == unwrap_or(whistleblower_index, proposer_index)
        whistleblower_reward == whistleblower_reward_of(validator_effective_balance)
        proposer_reward == proposer_reward_of(whistleblower_reward)
    IN  increase_balance(increase_balance(s, proposer_index, proposer_reward),
                         whistleblower, whistleblower_reward - proposer_reward)

\* Variant: a missing validator is skipped without an error.
slash_validator_skip(s, slashed_index, whistleblower_index) ==
    LET epoch == get_current_epoch(s)
        s1 == initiate_validator_exit(s, slashed_index)
    IN  IF ~InRange(s1.validators, slashed_index)
        THEN [state |-> s1, result |-> "Ok"]
        ELSE
          LET s2 == slash_mark(s1, slashed_index, epoch)
              validator_effective_balance == s2.validators[slashed_index].effective_balance
              s3 == slash_accumulate(s2, epoch, validator_effective_balance)
              s4 == slash_penalty(s3, slashed_index, validator_effective_balance)
              proposer == get_beacon_proposer_index(s4)
          IN  IF proposer.result # "Ok"
              THEN [state |-> s4, result |-> proposer.result]
              ELSE [state |-> slash_rewards(s4, proposer.index, whistleblower_index,
                                            validator_effective_balance),
                    result |-> "Ok"]

slash_validator(s, slashed_index, whistleblower_index) ==
    LET epoch == get_current_epoch(s)
        s1 == initiate_validator_exit(s, slashed_index)
    IN  IF ~InRange(s1.validators, slashed_index)
        THEN [state |-> s1, result |-> "ValidatorNotFound"]
        ELSE
          LET s2 == slash_mark(s1, slashed_index, epoch)
              validator_effective_balance == s2.validators[slashed_index].effective_balance
              s3 == slash_accumulate(s2, epoch, validator_effective_balance)
              s4 == slash_penalty(s3, slashed_index, validator_effective_balance)
              proposer == get_beacon_proposer_index(s4)
          IN  IF proposer.result # "Ok"
              THEN [state |-> s4, result |-> proposer.result]
              ELSE [state |-> slash_rewards(s4, proposer.index, whistleblower_index,
                                            validator_effective_balance),
                    result |-> "Ok"]

(***************************************************************************)
(* Participation flags: one u8 per validator.                              *)
(***************************************************************************)
\* Bitwise and / or of two bytes, bit by bit from the lowest of `bits` bits.
RECURSIVE BitAnd(_, _, _)
BitAnd(a, b, bits) ==
    IF bits = 0 THEN 0
    ELSE (IF a % 2 = 1 /\ b % 2 = 1 THEN 1 ELSE 0) + 2 * BitAnd(a \div 2, b \div 2, bits - 1)

RECURSIVE BitOr(_, _, _)
BitOr(a, b, bits) ==
    IF bits = 0 THEN 0
    ELSE (IF a % 2 = 1 \/ b % 2 = 1 THEN 1 ELSE 0) + 2 * BitOr(a \div 2, b \div 2, bits - 1)

\* `2 << flag_index` in u8: the bits shifted out of the byte are lost.
flag_of(flag_index) == (2 * (2 ^ flag_index)) % 256

add_flag(flags, flag_index) == BitOr(flags, flag_of(flag_index), 8)

has_flag(flags, flag_index) ==
    BitAnd(flags, flag_of(flag_index), 8) = flag_of(flag_index)

\* Elements of a sequence, as a set.
Range(seq) == {seq[k] : k \in 1..Len(seq)}

get_unslashed_participating_indices(s, flag_index, epoch) ==
    IF ~(epoch = get_previous_epoch(s) \/ epoch = get_current_epoch(s))
    THEN [result |-> "InvalidEpoch", indices |-> {}]
    ELSE
      LET epoch_participation ==
              IF epoch = get_current_epoch(s)
              THEN s.current_epoch_participation
              ELSE s.previous_epoch_participation
          active_validator_indices == get_active_validator_indices(s, epoch)
          participating_indices ==
              {i \in Range(active_validator_indices) :
                  has_flag(epoch_participation[i], flag_index)}
          filtered_indices ==
              {index \in participating_indices : s.validators[index].slashed}
      IN  [result |-> "Ok", indices |-> filtered_indices]

(***************************************************************************)
(* Inactivity accounting.                                                  *)
(***************************************************************************)
get_finality_delay(s) == get_previous_epoch(s) - s.finalized_checkpoint.epoch

is_in_inactivity_leak(s) == get_finality_delay(s) > MIN_EPOCHS_TO_INACTIVITY_PENALTY

RECURSIVE EligibleFrom(_, _)
EligibleFrom(s, i) ==
    IF i >= ListLen(s.validators) THEN <<>>
    ELSE LET v == s.validators[i]
             previous_epoch == get_previous_epoch(s)
         IN  IF is_active_validator(v, previous_epoch)
                \/ (v.slashed /\ previous_epoch + 1 < v.withdrawable_epoch)
             THEN <<i>> \o EligibleFrom(s, i + 1)
             ELSE EligibleFrom(s, i + 1)

get_eligible_validator_indices(s) == EligibleFrom(s, 0)

\* Variant: the recovery is applied during a leak, not outside one.
inactivity_update_leak(s, index) ==
    LET participating ==
            get_unslashed_participating_indices(s, TIMELY_TARGET_FLAG_INDEX,
                                                get_previous_epoch(s))
        s1 == IF index \in participating.indices
              THEN [s EXCEPT !.inactivity_scores[index] = @ - Min(1, @)]
              ELSE [s EXCEPT !.inactivity_scores[index] = @ + INACTIVITY_SCORE_BIAS]
    IN  IF is_in_inactivity_leak(s1)
        THEN [s1 EXCEPT !.inactivity_scores[index] =
                            @ - Min(INACTIVITY_SCORE_RECOVERY_RATE, @)]
        ELSE s1

\* One iteration of the loop of process_inactivity_updates, for `index`.
inactivity_update(s, index) ==
    LET participating ==
            get_unslashed_participating_indices(s, TIMELY_TARGET_FLAG_INDEX,
                                                get_previous_epoch(s))
        s1 == IF index \in participating.indices
              THEN [s EXCEPT !.inactivity_scores[index] = @ - Min(1, @)]
              ELSE [s EXCEPT !.inactivity_scores[index] = @ + INACTIVITY_SCORE_BIAS]
    IN  IF ~is_in_inactivity_leak(s1)
        THEN [s1 EXCEPT !.inactivity_scores[index] =
                            @ - Min(INACTIVITY_SCORE_RECOVERY_RATE, @)]
        ELSE s1

RECURSIVE inactivity_loop(_, _, _)
inactivity_loop(s, eligible, k) ==
    IF k > Len(eligible) THEN s
    ELSE CHOOSE after \in {inactivity_loop(updated, eligible, k + 1) :
                               updated \in {inactivity_update(s, eligible[k])}} : TRUE

\* Variant: the loop runs over every validator of the registry.
process_inactivity_updates_all(s) ==
    IF get_current_epoch(s) = GENESIS_EPOCH
    THEN [state |-> s, result |-> "Ok"]
    ELSE [state |-> inactivity_loop(s, [k \in 1..ListLen(s.validators) |-> k - 1], 1),
          result |-> "Ok"]

process_inactivity_updates(s) ==
    IF get_current_epoch(s) = GENESIS_EPOCH
    THEN [state |-> s, result |-> "Ok"]
    ELSE [state |-> inactivity_loop(s, get_eligible_validator_indices(s), 1),
          result |-> "Ok"]

\* The loop of get_inactivity_penalty_deltas over the eligible indices.
RECURSIVE penalties_loop(_, _, _, _, _)
penalties_loop(s, penalties, matching_target_indices, eligible, k) ==
    IF k > Len(eligible) THEN penalties
    ELSE
      LET index == eligible[k]
          penalty_numerator ==
              s.validators[index].effective_balance * s.inactivity_scores[index]
          penalty_denominator ==
              INACTIVITY_SCORE_BIAS * INACTIVITY_PENALTY_QUOTIENT_ALTAIR
          next == IF index \notin matching_target_indices
                  THEN [penalties EXCEPT ![index] =
                            @ + (penalty_numerator \div penalty_denominator)]
                  ELSE penalties
      IN  penalties_loop(s, next, matching_target_indices, eligible, k + 1)

get_inactivity_penalty_deltas(s) ==
    LET rewards == [i \in DOMAIN s.validators |-> 0]
        penalties == [i \in DOMAIN s.validators |-> 0]
        previous_epoch == get_previous_epoch(s)
        matching == get_unslashed_participating_indices(s, TIMELY_TARGET_FLAG_INDEX,
                                                        previous_epoch)
    IN  IF matching.result # "Ok"
        THEN [result |-> matching.result, rewards |-> rewards, penalties |-> penalties]
        ELSE [result |-> "Ok", rewards |-> rewards,
              penalties |-> penalties_loop(s, penalties, matching.indices,
                                           get_eligible_validator_indices(s), 1)]

(***************************************************************************)
(* History.                                                                *)
(***************************************************************************)
\* Variant: the current slot is taken to be inside the window.
get_block_root_at_slot_current(s, slot) ==
    IF ~(slot <= s.slot /\ s.slot <= slot + SLOTS_PER_HISTORICAL_ROOT)
    THEN [result |-> "OutOfHistoryRange", root |-> 0]
    ELSE [result |-> "Ok", root |-> RingGet(s.block_roots, slot % SLOTS_PER_HISTORICAL_ROOT)]

get_block_root_at_slot(s, slot) ==
    IF ~(slot < s.slot /\ s.slot <= slot + SLOTS_PER_HISTORICAL_ROOT)
    THEN [result |-> "OutOfHistoryRange", root |-> 0]
    ELSE [result |-> "Ok", root |-> RingGet(s.block_roots, slot % SLOTS_PER_HISTORICAL_ROOT)]

get_block_root(s, epoch) == get_block_root_at_slot(s, compute_start_slot_at_epoch(epoch))

(***************************************************************************)
(* Attestation participation flags.                                        *)
(***************************************************************************)
\* (n as f64).sqrt() as u64: the integer part of the square root.
sqrt_as_u64(n) == CHOOSE r \in 0..n : r * r <= n /\ n < (r + 1) * (r + 1)

\* Variant: the head flag for an inclusion delay of at most the minimum.
participation_flag_indices_at_most(is_matching_source, is_matching_target, is_matching_head, inclusion_delay) ==
    (IF is_matching_source /\ inclusion_delay <= sqrt_as_u64(SLOTS_PER_EPOCH)
     THEN <<TIMELY_SOURCE_FLAG_INDEX>> ELSE <<>>)
    \o (IF is_matching_target /\ inclusion_delay <= SLOTS_PER_EPOCH
        THEN <<TIMELY_TARGET_FLAG_INDEX>> ELSE <<>>)
    \o (IF is_matching_head /\ inclusion_delay <= MIN_ATTESTATION_INCLUSION_DELAY
        THEN <<TIMELY_HEAD_FLAG_INDEX>> ELSE <<>>)

\* The three pushes onto participation_flag_indices.
participation_flag_indices(is_matching_source, is_matching_target, is_matching_head, inclusion_delay) ==
    (IF is_matching_source /\ inclusion_delay <= sqrt_as_u64(SLOTS_PER_EPOCH)
     THEN <<TIMELY_SOURCE_FLAG_INDEX>> ELSE <<>>)
    \o (IF is_matching_target /\ inclusion_delay <= SLOTS_PER_EPOCH
        THEN <<TIMELY_TARGET_FLAG_INDEX>> ELSE <<>>)
    \o (IF is_matching_head /\ inclusion_delay = MIN_ATTESTATION_INCLUSION_DELAY
        THEN <<TIMELY_HEAD_FLAG_INDEX>> ELSE <<>>)

\* `a && b?` evaluates b, and so can fail in it, only when a holds.
get_attestation_participation_flag_indices(s, data, inclusion_delay) ==
    LET justified_checkpoint ==
            IF data.target.epoch = get_current_epoch(s)
            THEN s.current_justified_checkpoint
            ELSE s.previous_justified_checkpoint
        is_matching_source == data.source = justified_checkpoint
        target_root == get_block_root(s, data.target.epoch)
        is_matching_target ==
            is_matching_source /\ data.target.root = target_root.root
        head_root == get_block_root_at_slot(s, data.slot)
        is_matching_head ==
            is_matching_target /\ data.beacon_block_root = head_root.root
    IN  IF is_matching_source /\ target_root.result # "Ok"
        THEN [result |-> target_root.result, flags |-> <<>>]
        ELSE IF is_matching_target /\ head_root.result # "Ok"
        THEN [result |-> head_root.result, flags |-> <<>>]
        ELSE IF ~is_matching_source
        THEN [result |-> "SourceMismatch", flags |-> <<>>]
        ELSE [result |-> "Ok",
              flags |-> participation_flag_indices(is_matching_source,
                            is_matching_target, is_matching_head, inclusion_delay)]

(***************************************************************************)
(* Initial states.                                                         *)
(***************************************************************************)
\* The validators a registry is made of: active with the full effective
\* balance, active with 17 increments, slashed at epoch 0 (exit epoch 5,
\* withdrawable after the slashings vector has turned round), and a
\* deposit that is not yet activated.
ValidatorKinds ==
    << [effective_balance |-> MAX_EFFECTIVE_BALANCE, slashed |-> FALSE,
        activation_epoch |-> GENESIS_EPOCH, exit_epoch |-> FAR_FUTURE_EPOCH,
        withdrawable_epoch |-> FAR_FUTURE_EPOCH],
       [effective_balance |-> 17 * EFFECTIVE_BALANCE_INCREMENT, slashed |-> FALSE,
        activation_epoch |-> GENESIS_EPOCH, exit_epoch |-> FAR_FUTURE_EPOCH,
        withdrawable_epoch |-> FAR_FUTURE_EPOCH],
       [effective_balance |-> MAX_EFFECTIVE_BALANCE, slashed |-> TRUE,
        activation_epoch |-> GENESIS_EPOCH,
        exit_epoch |-> compute_activation_exit_epoch(GENESIS_EPOCH),
        withdrawable_epoch |-> GENESIS_EPOCH + EPOCHS_PER_SLASHINGS_VECTOR],
       [effective_balance |-> EFFECTIVE_BALANCE_INCREMENT, slashed |-> FALSE,
        activation_epoch |-> FAR_FUTURE_EPOCH, exit_epoch |-> FAR_FUTURE_EPOCH,
        withdrawable_epoch |-> FAR_FUTURE_EPOCH] >>

\* Registries of n validators: the kinds in turn from any of them on, and
\* the registry of deposits only (no validator is active).
Registries(n) ==
    {[i \in 0..(n - 1) |-> ValidatorKinds[((i + r) % Len(ValidatorKinds)) + 1]] :
        r \in 0..(Len(ValidatorKinds) - 1)}
    \cup {[i \in 0..(n - 1) |-> ValidatorKinds[4]]}

\* Slots of epoch 0, of epoch 2 and of epoch 8193 (past one turn of the rings).
Slots == {5, 70, 262177}

Seeds == {[shift |-> 0, bytes |-> <<0>>], [shift |-> 1, bytes |-> <<255, 128, 0>>]}

\* Block roots are numbered from 1; the ring slots listed hold a root, the
\* others hold the zero root.
RootSlots == {0, 1, 37, 69, 8191}

InitBlockRoots == [i \in RootSlots |-> i + 1]

\* No validator has been slashed in the epochs the slashings ring covers.
InitSlashings == [i \in {} |-> 0]

StateRecord(slot, validators, balances, seed, previous, current, finalized, scores) ==
    [slot |-> slot,
     block_roots |-> InitBlockRoots,
     validators |-> validators,
     balances |-> balances,
     proposer_seed |-> seed,
     slashings |-> InitSlashings,
     previous_epoch_participation |-> previous,
     current_epoch_participation |-> current,
     previous_justified_checkpoint |->
         [epoch |-> Max(0, compute_epoch_at_slot(slot) - 2), root |-> 12],
     current_justified_checkpoint |->
         [epoch |-> Max(0, compute_epoch_at_slot(slot) - 1), root |-> 11],
     finalized_checkpoint |-> [epoch |-> finalized],
     inactivity_scores |-> scores]

NoCall ==
    [op |-> "none", index |-> 0, delta |-> 0, whistleblower_index |-> None,
     input |-> <<>>, result |-> "Ok", value |-> 0,
     indices |-> {}, flags |-> <<>>,
     rewards |-> [i \in {} |-> 0], penalties |-> [i \in {} |-> 0]]

Init ==
    /\ \E slot \in Slots, validators \in Registries(NumValidators),
          seed \in Seeds, low \in BOOLEAN :
         state = StateRecord(slot, validators,
                    [i \in DOMAIN validators |->
                        IF low THEN 3 ELSE validators[i].effective_balance],
                    seed,
                    [i \in DOMAIN validators |-> IF i % 2 = 0 THEN 4 ELSE 0],
                    [i \in DOMAIN validators |-> 0],
                    Max(0, compute_epoch_at_slot(slot) - 2),
                    [i \in DOMAIN validators |-> 20 + 7 * i])
    /\ pre = state
    /\ call = NoCall
    /\ calls = MaxCalls

\* The exit queue's initial states: no validator has an exit epoch; two in
\* three are active, the third is a deposit that is not yet activated.
QueueRegistry(n) ==
    [i \in 0..(n - 1) |-> ValidatorKinds[<<1, 2, 4>>[(i % 3) + 1]]]

InitQueue ==
    /\ \E slot \in Slots, seed \in Seeds :
         LET validators == QueueRegistry(NumQueueValidators)
         IN  state = StateRecord(slot, validators,
                        [i \in DOMAIN validators |-> validators[i].effective_balance],
                        seed,
                        [i \in DOMAIN validators |-> IF i % 2 = 0 THEN 4 ELSE 0],
                        [i \in DOMAIN validators |-> 0],
                        Max(0, compute_epoch_at_slot(slot) - 2),
                        [i \in DOMAIN validators |-> 20 + 7 * i])
    /\ pre = state
    /\ call = NoCall
    /\ calls = MaxQueueCalls

(***************************************************************************)
(* Actions: one per operation; the driver's inputs are drawn from small    *)
(* sets.  An index equal to the registry's length is out of range.         *)
(***************************************************************************)
Indices(s) == 0..ListLen(s.validators)

Deltas == {1, 20000}

Whistleblowers(s) == {None, Some(1), Some(ListLen(s.validators))}

Called(op, index, delta, whistleblower_index, result, value) ==
    /\ pre' = state
    /\ call' = [NoCall EXCEPT !.op = op, !.index = index, !.delta = delta,
                              !.whistleblower_index = whistleblower_index,
                              !.result = result, !.value = value]
    /\ calls' = calls - 1

\* A query: the record is left as it is; `returned` is the call with its
\* arguments (input) and what it gave back (result, and value, indices,
\* flags or rewards and penalties).
Queried(returned) ==
    /\ state' = state
    /\ pre' = state
    /\ call' = returned
    /\ calls' = calls - 1

IncreaseBalance ==
    /\ calls > 0
    /\ \E index \in Indices(state), delta \in Deltas :
         /\ state' = increase_balance(state, index, delta)
         /\ Called("increase_balance", index, delta, None, "Ok", 0)

DecreaseBalance ==
    /\ calls > 0
    /\ \E index \in Indices(state), delta \in Deltas :
         /\ state' = decrease_balance(state, index, delta)
         /\ Called("decrease_balance", index, delta, None, "Ok", 0)

InitiateValidatorExit ==
    /\ calls > 0
    /\ \E index \in Indices(state) :
         /\ state' = initiate_validator_exit(state, index)
         /\ Called("initiate_validator_exit", index, 0, None, "Ok", 0)

SlashValidator ==
    /\ calls > 0
    /\ \E slashed_index \in Indices(state),
          whistleblower_index \in Whistleblowers(state) :
         LET r == slash_validator(state, slashed_index, whistleblower_index)
         IN  /\ state' = r.state
             /\ Called("slash_validator", slashed_index, 0, whistleblower_index,
                       r.result, 0)

ProcessInactivityUpdates ==
    /\ calls > 0
    /\ LET r == process_inactivity_updates(state)
       IN  /\ state' = r.state
           /\ Called("process_inactivity_updates", 0, 0, None, r.result, 0)

Next ==
    \/ IncreaseBalance
    \/ DecreaseBalance
    \/ InitiateValidatorExit
    \/ SlashValidator
    \/ ProcessInactivityUpdates

Spec == Init /\ [][Next]_vars

\* The history query alone, over current slots on both sides of one turn of
\* the block-root ring.
StateSlots == {0, 1, 70, 8191, 8192, 8193, 262177}

QuerySlots(s) ==
    {slot \in {0, 37, s.slot - SLOTS_PER_HISTORICAL_ROOT - 1,
               s.slot - SLOTS_PER_HISTORICAL_ROOT,
               s.slot - SLOTS_PER_HISTORICAL_ROOT + 1,
               s.slot - 1, s.slot, s.slot + 1,
               s.slot + SLOTS_PER_HISTORICAL_ROOT} : slot >= 0}

InitRoots ==
    /\ \E slot \in StateSlots, seed \in Seeds, offset \in {0, 1} :
         LET validators == QueueRegistry(NumValidators)
             record == StateRecord(slot, validators,
                          [i \in DOMAIN validators |-> validators[i].effective_balance],
                          seed,
                          [i \in DOMAIN validators |-> IF i % 2 = 0 THEN 4 ELSE 0],
                          [i \in DOMAIN validators |-> 0],
                          Max(0, compute_epoch_at_slot(slot) - 2),
                          [i \in DOMAIN validators |-> 20 + 7 * i])
         IN  state = [record EXCEPT !.block_roots =
                        [i \in {(q + offset) % SLOTS_PER_HISTORICAL_ROOT :
                                    q \in QuerySlots(record)} |-> i + 1]]
    /\ pre = state
    /\ call = NoCall
    /\ calls = MaxCalls

GetBlockRootAtSlot ==
    /\ calls > 0
    /\ \E slot \in QuerySlots(state) :
         LET r == get_block_root_at_slot(state, slot)
         IN  /\ state' = state
             /\ Called("get_block_root_at_slot", slot, 0, None, r.result, r.root)

NextRoots == GetBlockRootAtSlot

SpecRoots == InitRoots /\ [][NextRoots]_vars

\* Participation and inactivity accounting alone: epochs 0, 2 and 8193,
\* a chain that finalized two epochs ago or seven epochs ago (a leak in
\* epoch 8193), scores that are small, middling or large, and two
\* participation records.
ScoreVectors(validators) ==
    {[i \in DOMAIN validators |-> i],
     [i \in DOMAIN validators |-> 20 + 7 * i],
     [i \in DOMAIN validators |-> 20000 + i]}

ParticipationVectors(validators) ==
    {[i \in DOMAIN validators |-> IF i % 2 = 0 THEN 4 ELSE 0],
     [i \in DOMAIN validators |-> IF i % 2 = 0 THEN 2 ELSE 6]}

InitInactivity ==
    /\ \E slot \in Slots, validators \in Registries(NumValidators),
          behind \in {2, 7} :
         \E scores \in ScoreVectors(validators),
            previous \in ParticipationVectors(validators) :
           state = StateRecord(slot, validators,
                      [i \in DOMAIN validators |-> validators[i].effective_balance],
                      [shift |-> 0, bytes |-> <<0>>],
                      previous,
                      [i \in DOMAIN validators |-> 6 - previous[i]],
                      Max(0, compute_epoch_at_slot(slot) - behind),
                      scores)
    /\ pre = state
    /\ call = NoCall
    /\ calls = MaxCalls

FlagIndices == {TIMELY_SOURCE_FLAG_INDEX, TIMELY_TARGET_FLAG_INDEX, TIMELY_HEAD_FLAG_INDEX}

QueryEpochs(s) ==
    {epoch \in {get_current_epoch(s) - 2, get_previous_epoch(s),
                get_current_epoch(s), get_current_epoch(s) + 1} : epoch >= 0}

GetUnslashedParticipatingIndices ==
    /\ calls > 0
    /\ \E flag_index \in FlagIndices, epoch \in QueryEpochs(state) :
         LET r == get_unslashed_participating_indices(state, flag_index, epoch)
         IN  Queried([NoCall EXCEPT !.op = "get_unslashed_participating_indices",
                                    !.input = <<flag_index, epoch>>,
                                    !.result = r.result, !.indices = r.indices])

GetInactivityPenaltyDeltas ==
    /\ calls > 0
    /\ LET r == get_inactivity_penalty_deltas(state)
       IN  Queried([NoCall EXCEPT !.op = "get_inactivity_penalty_deltas",
                                  !.result = r.result, !.rewards = r.rewards,
                                  !.penalties = r.penalties])

NextInactivity ==
    \/ ProcessInactivityUpdates
    \/ GetUnslashedParticipatingIndices
    \/ GetInactivityPenaltyDeltas

SpecInactivity == InitInactivity /\ [][NextInactivity]_vars

\* Attestations alone: slots of epoch 0, the first slot of epoch 2, a later
\* slot of epoch 2 and a slot of epoch 8193; the ring holds the roots of the
\* start slots of the current and the previous epoch and of the two slots
\* before the current one.
AttestationSlots == {5, 64, 70, 262177}

AttestationRoots(slot) ==
    LET epoch == compute_epoch_at_slot(slot)
        slots == {compute_start_slot_at_epoch(epoch),
                  compute_start_slot_at_epoch(Max(0, epoch - 1)),
                  Max(0, slot - 1), Max(0, slot - 2)}
    IN  [i \in {h % SLOTS_PER_HISTORICAL_ROOT : h \in slots} |-> i + 1]

InitAttestation ==
    /\ \E slot \in AttestationSlots :
         LET validators == QueueRegistry(NumValidators)
             record == StateRecord(slot, validators,
                          [i \in DOMAIN validators |-> validators[i].effective_balance],
                          [shift |-> 0, bytes |-> <<0>>],
                          [i \in DOMAIN validators |-> 0],
                          [i \in DOMAIN validators |-> 0],
                          Max(0, compute_epoch_at_slot(slot) - 2),
                          [i \in DOMAIN validators |-> 0])
         IN  state = [record EXCEPT !.block_roots = AttestationRoots(slot)]
    /\ pre = state
    /\ call = NoCall
    /\ calls = MaxQueries

\* A root no block has.
NoRoot == 99

TargetEpochs(s) == {get_previous_epoch(s), get_current_epoch(s), get_current_epoch(s) + 1}

Sources(s) ==
    {s.current_justified_checkpoint, s.previous_justified_checkpoint,
     [s.current_justified_checkpoint EXCEPT !.root = NoRoot]}

RootsAt(s, slot) == {RingGet(s.block_roots, slot % SLOTS_PER_HISTORICAL_ROOT), NoRoot}

AttestationDataSlots(s) == {Max(0, s.slot - 1), s.slot}

InclusionDelays ==
    {0, MIN_ATTESTATION_INCLUSION_DELAY, MIN_ATTESTATION_INCLUSION_DELAY + 1,
     sqrt_as_u64(SLOTS_PER_EPOCH), sqrt_as_u64(SLOTS_PER_EPOCH) + 1,
     SLOTS_PER_EPOCH, SLOTS_PER_EPOCH + 1}

GetAttestationParticipationFlagIndices ==
    /\ calls > 0
    /\ \E slot \in AttestationDataSlots(state), target_epoch \in TargetEpochs(state),
          source \in Sources(state), inclusion_delay \in InclusionDelays :
         \E beacon_block_root \in RootsAt(state, slot),
            target_root \in RootsAt(state, compute_start_slot_at_epoch(target_epoch)) :
           LET data == [slot |-> slot, beacon_block_root |-> beacon_block_root,
                        source |-> source,
                        target |-> [epoch |-> target_epoch, root |-> target_root]]
               r == get_attestation_participation_flag_indices(state, data, inclusion_delay)
           IN  Queried([NoCall EXCEPT
                          !.op = "get_attestation_participation_flag_indices",
                          !.input = <<slot, beacon_block_root, source.epoch, source.root,
                                      target_epoch, target_root, inclusion_delay>>,
                          !.result = r.result, !.flags = r.flags])

NextAttestation == GetAttestationParticipationFlagIndices

SpecAttestation == InitAttestation /\ [][NextAttestation]_vars

\* Proposer selection alone: more seeds (every shift of a registry of
\* NumValidators, random bytes on both sides of each kind's acceptance
\* threshold), and index lists that are empty, singletons, pairs or the
\* active validators.
ProposerSeeds ==
    {[shift |-> shift, bytes |-> bytes] :
        shift \in 0..2,
        bytes \in {<<0>>, <<255, 128, 0>>, <<136, 255, 135, 0>>, <<8, 200, 7, 0>>}}

InitProposer ==
    /\ \E slot \in Slots, validators \in Registries(NumValidators),
          seed \in ProposerSeeds :
         state = StateRecord(slot, validators,
                    [i \in DOMAIN validators |-> validators[i].effective_balance],
                    seed,
                    [i \in DOMAIN validators |-> 0],
                    [i \in DOMAIN validators |-> 0],
                    Max(0, compute_epoch_at_slot(slot) - 2),
                    [i \in DOMAIN validators |-> 0])
    /\ pre = state
    /\ call = NoCall
    /\ calls = MaxQueries

IndexLists(s) ==
    {<<>>, get_active_validator_indices(s, get_current_epoch(s))}
    \cup {<<x>> : x \in DOMAIN s.validators}
    \cup {<<x, y>> : x, y \in DOMAIN s.validators}

ComputeProposerIndex ==
    /\ calls > 0
    /\ \E indices \in IndexLists(state) :
         LET r == compute_proposer_index(state, indices, get_seed(state))
         IN  Queried([NoCall EXCEPT !.op = "compute_proposer_index",
                                    !.input = indices,
                                    !.result = r.result, !.value = r.index])

GetBeaconProposerIndex ==
    /\ calls > 0
    /\ LET r == get_beacon_proposer_index(state)
       IN  Queried([NoCall EXCEPT !.op = "get_beacon_proposer_index",
                                  !.result = r.result, !.value = r.index])

NextProposer ==
    \/ ComputeProposerIndex
    \/ GetBeaconProposerIndex

SpecProposer == InitProposer /\ [][NextProposer]_vars

\* Participation flags alone: add_flag on bytes with low bits, high bits,
\* no bits and all bits, for every flag index of a byte.
FlagBytes == (0..15) \cup {64, 127, 128, 254, 255}

ByteFlagIndices == 0..7

InitFlags ==
    /\ LET validators == QueueRegistry(NumValidators)
       IN  state = StateRecord(5, validators,
                      [i \in DOMAIN validators |-> validators[i].effective_balance],
                      [shift |-> 0, bytes |-> <<0>>],
                      [i \in DOMAIN validators |-> 0],
                      [i \in DOMAIN validators |-> 0],
                      0,
                      [i \in DOMAIN validators |-> 0])
    /\ pre = state
    /\ call = NoCall
    /\ calls = MaxQueries

AddFlag ==
    /\ calls > 0
    /\ \E flags \in FlagBytes, flag_index \in ByteFlagIndices :
         Queried([NoCall EXCEPT !.op = "add_flag", !.input = <<flags, flag_index>>,
                                !.value = add_flag(flags, flag_index)])

NextFlags == AddFlag

SpecFlags == InitFlags /\ [][NextFlags]_vars

\* Balances at the full width of a u64: every balance is 32 ETH
\* (32 * 10^9 Gwei), increased by 1 Gwei, by 32 ETH, by 2^63 Gwei and by
\* 2^64 - 1 Gwei.
Gwei32Eth == <<16384, 29529, 7, 0>>

U64Deltas == {<<1, 0, 0, 0>>, Gwei32Eth, <<0, 0, 0, 32768>>, <<65535, 65535, 65535, 65535>>}

InitBalance ==
    /\ \E validators \in Registries(NumValidators) :
         LET record == StateRecord(5, validators,
                          [i \in DOMAIN validators |-> 0],
                          [shift |-> 0, bytes |-> <<0>>],
                          [i \in DOMAIN validators |-> 0],
                          [i \in DOMAIN validators |-> 0],
                          0,
                          [i \in DOMAIN validators |-> 0])
         IN  state = [record EXCEPT !.balances =
                         [i \in DOMAIN validators |-> Gwei32Eth]]
    /\ pre = state
    /\ call = NoCall
    /\ calls = MaxCalls

IncreaseBalanceU64 ==
    /\ calls > 0
    /\ \E index \in Indices(state), delta \in U64Deltas, overflow_checks \in BOOLEAN :
         LET r == increase_balance_u64(state, index, delta, overflow_checks)
         IN  /\ state' = r.state
             /\ pre' = state
             /\ call' = [NoCall EXCEPT !.op = "increase_balance", !.index = index,
                                       !.input = delta, !.result = r.result]
             /\ calls' = calls - 1

NextBalance == IncreaseBalanceU64

SpecBalance == InitBalance /\ [][NextBalance]_vars

\* The exit queue alone: calls of initiate_validator_exit on a registry in
\* which no validator has an exit epoch yet, the slot staying the same.
NextQueue == InitiateValidatorExit

SpecQueue == InitQueue /\ [][NextQueue]_vars

\* The exit queue with exits of before: as InitQueue, or with validator 0
\* queued in epoch 0, or with validator 0 queued in epoch 0 and all but one
\* of the churn limit queued earlier in the current epoch.
Exited(v, exit_epoch) ==
    [v EXCEPT !.exit_epoch = exit_epoch,
              !.withdrawable_epoch = exit_epoch + MIN_VALIDATOR_WITHDRAWABILITY_DELAY]

ExitedBefore(slot, validators) ==
    {validators,
     [validators EXCEPT ![0] = Exited(@, compute_activation_exit_epoch(GENESIS_EPOCH))],
     [i \in DOMAIN validators |->
         IF i = 0
         THEN Exited(validators[i], compute_activation_exit_epoch(GENESIS_EPOCH))
         ELSE IF i < MIN_PER_EPOCH_CHURN_LIMIT
         THEN Exited(validators[i],
                     compute_activation_exit_epoch(compute_epoch_at_slot(slot)))
         ELSE validators[i]]}

InitExit ==
    /\ \E slot \in Slots :
         \E validators \in ExitedBefore(slot, QueueRegistry(NumExitValidators)) :
           state = StateRecord(slot, validators,
                      [i \in DOMAIN validators |-> validators[i].effective_balance],
                      [shift |-> 0, bytes |-> <<0>>],
                      [i \in DOMAIN validators |-> 0],
                      [i \in DOMAIN validators |-> 0],
                      Max(0, compute_epoch_at_slot(slot) - 2),
                      [i \in DOMAIN validators |-> 0])
    /\ pre = state
    /\ call = NoCall
    /\ calls = MaxQueueCalls

SpecExit == InitExit /\ [][NextQueue]_vars

\* A chain that keeps finalizing.  Epoch processing runs
\* process_inactivity_updates at the end of every epoch; the slot then moves
\* to the next epoch, the participation record of the epoch that ends
\* becomes the previous one and the finalized checkpoint follows two epochs
\* behind, so that the chain is never in an inactivity leak.  `calls` is the
\* number of epochs the slot still advances by; after that the update
\* repeats with the slot held.
next_epoch(s, participation) ==
    [s EXCEPT !.slot = @ + SLOTS_PER_EPOCH,
              !.previous_epoch_participation = s.current_epoch_participation,
              !.current_epoch_participation = participation,
              !.finalized_checkpoint =
                  [epoch |-> Max(0, compute_epoch_at_slot(s.slot + SLOTS_PER_EPOCH) - 2)]]

\* Scores below, between and above the bias and the recovery rate, and
\* scores that take several epochs to recover.
RecoveringScores(validators) ==
    {[i \in DOMAIN validators |-> i],
     [i \in DOMAIN validators |-> 11 + i],
     [i \in DOMAIN validators |-> 20 + 7 * i]}

InitFinalizing ==
    /\ \E slot \in Slots, validators \in Registries(NumValidators) :
         \E scores \in RecoveringScores(validators),
            previous \in ParticipationVectors(validators) :
           state = StateRecord(slot, validators,
                      [i \in DOMAIN validators |-> validators[i].effective_balance],
                      [shift |-> 0, bytes |-> <<0>>],
                      previous,
                      [i \in DOMAIN validators |-> 6 - previous[i]],
                      Max(0, compute_epoch_at_slot(slot) - 2),
                      scores)
    /\ pre = state
    /\ call = NoCall
    /\ calls = MaxEpochs

EpochUpdateAndAdvance ==
    /\ calls > 0
    /\ \E participation \in ParticipationVectors(state.validators) :
         LET r == process_inactivity_updates(state)
         IN  /\ state' = next_epoch(r.state, participation)
             /\ pre' = state
             /\ call' = [NoCall EXCEPT !.op = "process_inactivity_updates",
                                       !.result = r.result]
             /\ calls' = calls - 1

EpochUpdate ==
    /\ calls = 0
    /\ LET r == process_inactivity_updates(state)
       IN  /\ state' = r.state
           /\ pre' = state
           /\ call' = [NoCall EXCEPT !.op = "process_inactivity_updates",
                                     !.result = r.result]
           /\ calls' = calls

NextFinalizing ==
    \/ EpochUpdateAndAdvance
    \/ EpochUpdate

SpecFinalizing ==
    InitFinalizing /\ [][NextFinalizing]_vars /\ WF_vars(NextFinalizing)

(***************************************************************************)
(* Properties.                                                             *)
(***************************************************************************)
FiniteExitEpochs(s) ==
    {s.validators[i].exit_epoch : i \in DOMAIN s.validators} \ {FAR_FUTURE_EPOCH}

ExitingAt(s, e) == {i \in DOMAIN s.validators : s.validators[i].exit_epoch = e}

\* C1: churn bound.  From a registry in which no validator has an exit
\* epoch, after any sequence of initiate_validator_exit calls in one epoch,
\* no exit epoch is held by more validators than get_validator_churn_limit().
ChurnBound ==
    \A e \in FiniteExitEpochs(state) :
        Cardinality(ExitingAt(state, e)) <= get_validator_churn_limit(state)

\* C1 witness: one exit epoch is full (as many validators as the churn
\* limit) and a further validator has been queued at the next epoch.
ChurnBoundWitness ==
    \E e \in FiniteExitEpochs(state) :
        /\ Cardinality(ExitingAt(state, e)) = get_validator_churn_limit(state)
        /\ ExitingAt(state, e + 1) # {}
        /\ call.op = "initiate_validator_exit"

\* C2: decrease_balance(i, delta) on an in-range index leaves
\* balances[i] = max(0, old balances[i] - delta).
DecreaseBalanceSaturates ==
    (call.op = "decrease_balance" /\ InRange(pre.balances, call.index))
        => state.balances[call.index] = Max(0, pre.balances[call.index] - call.delta)

SlashedOk == call.op = "slash_validator" /\ call.result = "Ok"

\* C3: after a successful slash_validator(v, w), v is slashed, its exit
\* epoch is finite, and its withdrawable epoch is at least
\* current_epoch + EPOCHS_PER_SLASHINGS_VECTOR and at least the withdrawable
\* epoch of its exit (the one it had, or exit_epoch +
\* MIN_VALIDATOR_WITHDRAWABILITY_DELAY when this call initiated the exit).
SlashMarksValidator ==
    SlashedOk =>
        LET v == state.validators[call.index]
            old == pre.validators[call.index]
        IN  /\ v.slashed
            /\ v.exit_epoch # FAR_FUTURE_EPOCH
            /\ v.withdrawable_epoch >=
                   get_current_epoch(pre) + EPOCHS_PER_SLASHINGS_VECTOR
            /\ IF old.exit_epoch = FAR_FUTURE_EPOCH
               THEN v.withdrawable_epoch >=
                        v.exit_epoch + MIN_VALIDATOR_WITHDRAWABILITY_DELAY
               ELSE v.withdrawable_epoch >= old.withdrawable_epoch

\* C3 witness: a successful slashing of a validator that was neither
\* slashed nor exiting before the call.
SlashMarksValidatorWitness ==
    /\ SlashedOk
    /\ ~pre.validators[call.index].slashed
    /\ pre.validators[call.index].exit_epoch = FAR_FUTURE_EPOCH

\* The ring slots the slashings ring holds a non-zero entry in, before or
\* after the last call; every other slot holds zero before and after.
TouchedSlashings == DOMAIN pre.slashings \cup DOMAIN state.slashings

SlashingsIndex(s) == get_current_epoch(s) % EPOCHS_PER_SLASHINGS_VECTOR

\* C4: a slash_validator call on an in-range validator of effective balance
\* B adds exactly B to the slashings entry of the current epoch and leaves
\* every other entry as it was; no other call changes the ring (so over a
\* sequence of slashings in one epoch the entry grows by the sum of the
\* slashed effective balances).
SlashingsAccumulate ==
    IF call.op = "slash_validator" /\ InRange(pre.validators, call.index)
    THEN /\ RingGet(state.slashings, SlashingsIndex(pre)) =
                RingGet(pre.slashings, SlashingsIndex(pre))
                    + pre.validators[call.index].effective_balance
         /\ \A i \in TouchedSlashings \ {SlashingsIndex(pre)} :
                RingGet(state.slashings, i) = RingGet(pre.slashings, i)
    ELSE state.slashings = pre.slashings

\* C4 witness: a second successful slashing in the same epoch; the entry
\* already held the effective balance of the first.
SlashingsAccumulateWitness ==
    /\ SlashedOk
    /\ RingGet(pre.slashings, SlashingsIndex(pre)) > 0
    /\ get_current_epoch(pre) >= EPOCHS_PER_SLASHINGS_VECTOR

\* The proposer of the slot, the validator slashed by the last call and the
\* whistleblower the last call's reward goes to.
ProposerIndex == get_beacon_proposer_index(pre).index

SlashedIndex == call.index

WhistleblowerIndex == unwrap_or(call.whistleblower_index, ProposerIndex)

Credited(i) == state.balances[i] - pre.balances[i]

\* C5: reward partition.  After a successful slash_validator of a validator
\* of effective balance B (that is neither the proposer nor the
\* whistleblower) with an in-range whistleblower, the proposer's and the
\* whistleblower's credits add up to B / WHISTLEBLOWER_REWARD_QUOTIENT, the
\* proposer's being (B / WHISTLEBLOWER_REWARD_QUOTIENT) * PROPOSER_WEIGHT /
\* WEIGHT_DENOMINATOR; with no whistleblower the proposer is credited with
\* the whole B / WHISTLEBLOWER_REWARD_QUOTIENT.
RewardPartition ==
    (/\ SlashedOk
     /\ SlashedIndex \notin {ProposerIndex, WhistleblowerIndex}
     /\ InRange(pre.balances, WhistleblowerIndex))
    => LET B == pre.validators[SlashedIndex].effective_balance
           whole == B \div WHISTLEBLOWER_REWARD_QUOTIENT
           share == (whole * PROPOSER_WEIGHT) \div WEIGHT_DENOMINATOR
       IN  IF WhistleblowerIndex = ProposerIndex
           THEN Credited(ProposerIndex) = whole
           ELSE /\ Credited(ProposerIndex) = share
                /\ Credited(ProposerIndex) + Credited(WhistleblowerIndex) = whole

\* C5 witness: a successful slashing with a whistleblower that is in range
\* and is not the proposer, and a proposer share that is not zero.
RewardPartitionWitness ==
    /\ SlashedOk
    /\ call.whistleblower_index # None
    /\ InRange(pre.balances, WhistleblowerIndex)
    /\ WhistleblowerIndex # ProposerIndex
    /\ SlashedIndex \notin {ProposerIndex, WhistleblowerIndex}
    /\ Credited(ProposerIndex) > 0
    /\ Credited(WhistleblowerIndex) > 0

\* C6: slashing penalty.  After a successful slash_validator(v, w) where v
\* is neither the proposer nor the whistleblower and balances[v] is at least
\* effective_balance(v) / MIN_SLASHING_PENALTY_QUOTIENT, balances[v] is
\* lower than before by exactly that amount.
SlashPenalty ==
    LET penalty == pre.validators[SlashedIndex].effective_balance
                       \div MIN_SLASHING_PENALTY_QUOTIENT
    IN  (/\ SlashedOk
         /\ SlashedIndex \notin {ProposerIndex, WhistleblowerIndex}
         /\ pre.balances[SlashedIndex] >= penalty)
        => state.balances[SlashedIndex] = pre.balances[SlashedIndex] - penalty

SlashNotFound ==
    (call.op = "slash_validator" /\ ~InRange(pre.validators, call.index))
    => (call.result = "ValidatorNotFound" /\ state = pre)

\* C8 witness: the second call of a behaviour is a slash_validator call on
\* the index one past the end of the registry.
SlashNotFoundWitness ==
    /\ call.op = "slash_validator"
    /\ call.index = ListLen(pre.validators)
    /\ calls = MaxCalls - 2

InWindow(s, slot) == s.slot - SLOTS_PER_HISTORICAL_ROOT <= slot /\ slot < s.slot

\* C9: get_block_root_at_slot(slot) succeeds exactly when
\* current_slot - SLOTS_PER_HISTORICAL_ROOT <= slot < current_slot, then
\* returning block_roots[slot mod SLOTS_PER_HISTORICAL_ROOT]; for every
\* other slot it fails with OutOfHistoryRange.
BlockRootWindow ==
    call.op = "get_block_root_at_slot" =>
        IF InWindow(state, call.index)
        THEN /\ call.result = "Ok"
             /\ call.value =
                    RingGet(state.block_roots, call.index % SLOTS_PER_HISTORICAL_ROOT)
        ELSE call.result = "OutOfHistoryRange"

\* C9 witness: the oldest slot of the window is read once the ring has
\* turned round, and the slot holds a root.
BlockRootWindowWitness ==
    /\ call.op = "get_block_root_at_slot"
    /\ call.result = "Ok"
    /\ call.value > 0
    /\ state.slot > SLOTS_PER_HISTORICAL_ROOT
    /\ call.index = state.slot - SLOTS_PER_HISTORICAL_ROOT

\* C10: process_inactivity_updates, outside the genesis epoch, gives every
\* eligible validator the score: old score less min(1, old score) if its
\* timely-target flag of the previous epoch is set, old score plus
\* INACTIVITY_SCORE_BIAS otherwise; then, outside an inactivity leak, less
\* min(INACTIVITY_SCORE_RECOVERY_RATE, score).  The score is never negative.
InactivityScoreUpdate ==
    (call.op = "process_inactivity_updates" /\ get_current_epoch(pre) # GENESIS_EPOCH)
    => \A i \in Range(get_eligible_validator_indices(pre)) :
          LET old == pre.inactivity_scores[i]
              first == IF has_flag(pre.previous_epoch_participation[i],
                                   TIMELY_TARGET_FLAG_INDEX)
                       THEN old - Min(1, old)
                       ELSE old + INACTIVITY_SCORE_BIAS
              second == IF ~is_in_inactivity_leak(pre)
                        THEN first - Min(INACTIVITY_SCORE_RECOVERY_RATE, first)
                        ELSE first
          IN  state.inactivity_scores[i] = second /\ state.inactivity_scores[i] >= 0

\* Whether validator i of record s is eligible: active at the previous
\* epoch, or slashed and not yet withdrawable at the epoch after it.
Eligible(s, i) ==
    LET v == s.validators[i]
    IN  \/ (v.activation_epoch <= get_previous_epoch(s)
            /\ get_previous_epoch(s) < v.exit_epoch)
        \/ (v.slashed /\ get_previous_epoch(s) + 1 < v.withdrawable_epoch)

\* The participation record of an epoch: the current record for the
\* current epoch, the previous record otherwise.
ParticipationOf(s, epoch) ==
    IF epoch = get_current_epoch(s)
    THEN s.current_epoch_participation
    ELSE s.previous_epoch_participation

\* Whether validator i has the timely-target flag of the previous epoch.
TimelyTarget(s, i) ==
    has_flag(ParticipationOf(s, get_previous_epoch(s))[i], TIMELY_TARGET_FLAG_INDEX)

\* C11: get_inactivity_penalty_deltas returns all-zero rewards, the penalty
\* effective_balance * inactivity_score / (INACTIVITY_SCORE_BIAS *
\* INACTIVITY_PENALTY_QUOTIENT_ALTAIR) for every eligible validator whose
\* timely-target flag of the previous epoch is not set, and the penalty 0
\* for every other validator.
InactivityPenaltyDeltas ==
    call.op = "get_inactivity_penalty_deltas" =>
        /\ call.result = "Ok"
        /\ \A i \in DOMAIN state.validators :
              /\ call.rewards[i] = 0
              /\ call.penalties[i] =
                    IF Eligible(state, i) /\ ~TimelyTarget(state, i)
                    THEN (state.validators[i].effective_balance
                             * state.inactivity_scores[i])
                         \div (INACTIVITY_SCORE_BIAS * INACTIVITY_PENALTY_QUOTIENT_ALTAIR)
                    ELSE 0

\* C12: get_unslashed_participating_indices(flag, epoch) fails with
\* InvalidEpoch unless epoch is the current or the previous epoch;
\* otherwise every index it returns is active at epoch, has the flag set in
\* that epoch's participation record and is not slashed.
UnslashedParticipating ==
    call.op = "get_unslashed_participating_indices" =>
        LET flag_index == call.input[1]
            epoch == call.input[2]
            record == ParticipationOf(state, epoch)
        IN  IF epoch \notin {get_current_epoch(state), get_previous_epoch(state)}
            THEN call.result = "InvalidEpoch"
            ELSE /\ call.result = "Ok"
                 /\ \A i \in call.indices :
                       /\ state.validators[i].activation_epoch <= epoch
                       /\ epoch < state.validators[i].exit_epoch
                       /\ has_flag(record[i], flag_index)
                       /\ ~state.validators[i].slashed

\* The checkpoint an attestation's source is compared with: the current
\* justified one if the target epoch is the current epoch, the previous
\* justified one otherwise.
RelevantJustified(s, target_epoch) ==
    IF target_epoch = get_current_epoch(s)
    THEN s.current_justified_checkpoint
    ELSE s.previous_justified_checkpoint

\* The source checkpoint, the target epoch and the inclusion delay of the
\* last get_attestation_participation_flag_indices call.
CallSource == [epoch |-> call.input[3], root |-> call.input[4]]

CallTargetEpoch == call.input[5]

CallInclusionDelay == call.input[7]

\* C13: get_attestation_participation_flag_indices fails with
\* SourceMismatch whenever the source checkpoint differs from the relevant
\* justified checkpoint, whether or not the target epoch and the slot are
\* inside the block-root window; when it succeeds, the timely-head flag is
\* emitted only for an inclusion delay of exactly
\* MIN_ATTESTATION_INCLUSION_DELAY and only together with the timely-target
\* flag.
AttestationFlags ==
    call.op = "get_attestation_participation_flag_indices" =>
        /\ (CallSource # RelevantJustified(state, CallTargetEpoch)
               => call.result = "SourceMismatch")
        /\ (call.result = "Ok" /\ TIMELY_HEAD_FLAG_INDEX \in Range(call.flags)
               => /\ CallInclusionDelay = MIN_ATTESTATION_INCLUSION_DELAY
                  /\ TIMELY_TARGET_FLAG_INDEX \in Range(call.flags))

\* A source mismatch reported for an attestation whose target epoch starts
\* outside the block-root window and whose slot is outside it too.
AttestationFlagsWitness ==
    /\ call.op = "get_attestation_participation_flag_indices"
    /\ CallSource # RelevantJustified(state, CallTargetEpoch)
    /\ get_block_root(state, CallTargetEpoch).result = "OutOfHistoryRange"
    /\ get_block_root_at_slot(state, call.input[1]).result = "OutOfHistoryRange"
    /\ call.result = "SourceMismatch"

\* The candidate that iteration k of the rejection-sampling loop draws
\* from `indices` under `seed`, and the random byte of that iteration.
CandidateAt(indices, seed, k) ==
    indices[compute_shuffled_index(k % Len(indices), Len(indices), seed) + 1]

Iterations(seed) == 0..(Len(seed.bytes) - 1)

\* C14: compute_proposer_index given a singleton index list [x] returns x
\* for every seed: every candidate drawn in an iteration of the loop is x,
\* and so is the value returned.
SingletonProposer ==
    (call.op = "compute_proposer_index" /\ Len(call.input) = 1) =>
        /\ call.result = "Ok"
        /\ call.value = call.input[1]
        /\ \A k \in Iterations(state.proposer_seed) :
              CandidateAt(call.input, state.proposer_seed, k) = call.input[1]

\* A singleton whose index is not 0 and whose validator is rejected in the
\* first iteration.
SingletonProposerWitness ==
    /\ call.op = "compute_proposer_index"
    /\ Len(call.input) = 1
    /\ call.input[1] > 0
    /\ state.validators[call.input[1]].effective_balance * 255
           < MAX_EFFECTIVE_BALANCE * state.proposer_seed.bytes[1]
    /\ call.value = call.input[1]

\* Whether a candidate of the given effective balance passes the
\* acceptance test against a random byte.
Passes(effective_balance, random_byte) ==
    effective_balance * 255 >= MAX_EFFECTIVE_BALANCE * random_byte

ActiveNow(s) ==
    {i \in DOMAIN s.validators :
        /\ s.validators[i].activation_epoch <= get_current_epoch(s)
        /\ get_current_epoch(s) < s.validators[i].exit_epoch}

\* Iteration k is the accepting one: its candidate passes the test and no
\* candidate of an earlier iteration did.
AcceptingIteration(s, indices, seed, k) ==
    /\ Passes(s.validators[CandidateAt(indices, seed, k)].effective_balance,
              seed.bytes[k + 1])
    /\ \A j \in 0..(k - 1) :
          ~Passes(s.validators[CandidateAt(indices, seed, j)].effective_balance,
                  seed.bytes[j + 1])

\* C15: get_beacon_proposer_index fails with EmptyIndexSet when no
\* validator is active at the current epoch; an index it returns is a
\* validator active at the current epoch whose effective balance passed
\* effective_balance * 255 >= MAX_EFFECTIVE_BALANCE * random_byte at the
\* accepting iteration, and no candidate of an earlier iteration passed it.
BeaconProposer ==
    call.op = "get_beacon_proposer_index" =>
        IF ActiveNow(state) = {}
        THEN call.result = "EmptyIndexSet"
        ELSE /\ call.result = "Ok"
             /\ call.value \in ActiveNow(state)
             /\ \E k \in Iterations(state.proposer_seed) :
                   LET indices == get_active_validator_indices(state,
                                      get_current_epoch(state))
                   IN  /\ AcceptingIteration(state, indices, state.proposer_seed, k)
                       /\ CandidateAt(indices, state.proposer_seed, k) = call.value

\* A proposer accepted in a later iteration, after a candidate that was
\* rejected.
BeaconProposerWitness ==
    /\ call.op = "get_beacon_proposer_index"
    /\ call.result = "Ok"
    /\ LET indices == get_active_validator_indices(state, get_current_epoch(state))
       IN  /\ ~AcceptingIteration(state, indices, state.proposer_seed, 0)
           /\ CandidateAt(indices, state.proposer_seed, 0) # call.value

\* C16: add_flag and has_flag are consistent for the flag indices 0..7 of
\* a byte: a flag tests as set in the byte it was added to, and in the
\* byte made by adding flag i to the empty byte no other flag tests as set.
FlagsConsistent ==
    call.op = "add_flag" =>
        /\ has_flag(call.value, call.input[2])
        /\ (call.input[1] = 0 =>
               \A j \in ByteFlagIndices :
                  has_flag(call.value, j) => j = call.input[2])

\* The sum of two u64 as a number of five limbs, which holds it whole.
ExactSum(a, b) ==
    u64_add(a, b).value \o <<IF u64_add(a, b).overflow THEN 1 ELSE 0>>

\* C17: increase_balance(index, delta) with an out-of-range index changes
\* nothing and reports no error; with an in-range index it sets
\* balances[index] to the old balances[index] + delta and leaves every
\* other balance and every other field as it was, so the balances list
\* keeps the length of the validator registry.
IncreaseBalanceFrame ==
    call.op = "increase_balance" =>
        /\ call.result = "Ok"
        /\ IF call.index \in DOMAIN pre.balances
           THEN /\ state.balances[call.index] \o <<0>>
                       = ExactSum(pre.balances[call.index], call.input)
                /\ \A i \in DOMAIN pre.balances \ {call.index} :
                      state.balances[i] = pre.balances[i]
                /\ [state EXCEPT !.balances = pre.balances] = pre
                /\ DOMAIN state.balances = DOMAIN state.validators
           ELSE state = pre

\* A call of initiate_validator_exit on an in-range validator that had no
\* exit epoch.
ExitInitiated ==
    /\ call.op = "initiate_validator_exit"
    /\ call.index \in DOMAIN pre.validators
    /\ pre.validators[call.index].exit_epoch = FAR_FUTURE_EPOCH

\* C18: exit queue ordering.  The exit epoch E that initiate_validator_exit
\* assigns to an in-range validator without one is at least
\* activation_exit_epoch(current_epoch) and at least every finite exit epoch
\* of the registry: it is the maximum of these, or that maximum plus one
\* when the validators already at the maximum are as many as the churn
\* limit or more; the withdrawable epoch becomes
\* E + MIN_VALIDATOR_WITHDRAWABILITY_DELAY and no other validator changes.
ExitQueueOrdering ==
    ExitInitiated =>
        LET E == state.validators[call.index].exit_epoch
            floor == compute_activation_exit_epoch(get_current_epoch(pre))
            maximum == CHOOSE e \in FiniteExitEpochs(pre) \cup {floor} :
                           \A other \in FiniteExitEpochs(pre) \cup {floor} : other <= e
        IN  /\ E >= floor
            /\ \A e \in FiniteExitEpochs(pre) : E >= e
            /\ E = IF Cardinality(ExitingAt(pre, maximum))
                         >= get_validator_churn_limit(pre)
                   THEN maximum + 1
                   ELSE maximum
            /\ state.validators[call.index].withdrawable_epoch
                   = E + MIN_VALIDATOR_WITHDRAWABILITY_DELAY
            /\ \A i \in DOMAIN pre.validators \ {call.index} :
                  state.validators[i] = pre.validators[i]
            /\ DOMAIN state.validators = DOMAIN pre.validators

\* An exit queued behind a full epoch: the registry had an exit epoch from
\* an earlier epoch, below the activation exit epoch of the current one, and
\* as many validators as the churn limit at its latest exit epoch.
ExitQueueOrderingWitness ==
    /\ ExitInitiated
    /\ \E e \in FiniteExitEpochs(pre) :
          /\ \A other \in FiniteExitEpochs(pre) : other <= e
          /\ Cardinality(ExitingAt(pre, e)) >= get_validator_churn_limit(pre)
          /\ state.validators[call.index].exit_epoch = e + 1
    /\ \E e \in FiniteExitEpochs(pre) :
          e < compute_activation_exit_epoch(get_current_epoch(pre))

\* C19: process_inactivity_updates changes nothing in the genesis epoch; in
\* any other epoch it changes only inactivity_scores entries of eligible
\* validators: the scores of the other validators and every other field
\* (validators, balances, participation, slashings) stay as they were.
InactivityUpdatesFrame ==
    call.op = "process_inactivity_updates" =>
        IF get_current_epoch(pre) = GENESIS_EPOCH
        THEN state = pre
        ELSE /\ [state EXCEPT !.inactivity_scores = pre.inactivity_scores] = pre
             /\ DOMAIN state.inactivity_scores = DOMAIN pre.inactivity_scores
             /\ \A i \in DOMAIN pre.inactivity_scores :
                   ~Eligible(pre, i) =>
                       state.inactivity_scores[i] = pre.inactivity_scores[i]

\* An update outside the genesis epoch that changed the score of an
\* eligible validator, in a registry with a validator that is not eligible
\* and has a score.
InactivityUpdatesFrameWitness ==
    /\ call.op = "process_inactivity_updates"
    /\ get_current_epoch(pre) # GENESIS_EPOCH
    /\ \E i \in DOMAIN pre.inactivity_scores :
          Eligible(pre, i) /\ state.inactivity_scores[i] # pre.inactivity_scores[i]
    /\ \E i \in DOMAIN pre.inactivity_scores :
          ~Eligible(pre, i) /\ pre.inactivity_scores[i] > 0

\* C20: exit and slashing are irreversible.  Whatever call was made last
\* (increase_balance, decrease_balance, initiate_validator_exit,
\* slash_validator or process_inactivity_updates, returning an error or
\* not), a validator whose exit epoch was finite before the call has the
\* same exit epoch after it, and a validator that was slashed before the
\* call is slashed after it.
ExitAndSlashingIrreversible ==
    /\ DOMAIN state.validators = DOMAIN pre.validators
    /\ \A i \in DOMAIN pre.validators :
          /\ (pre.validators[i].exit_epoch # FAR_FUTURE_EPOCH
                 => state.validators[i].exit_epoch = pre.validators[i].exit_epoch)
          /\ (pre.validators[i].slashed => state.validators[i].slashed)

\* A validator that was exiting and slashed is slashed again by a call that
\* returns an error after it has written to the record.
ExitAndSlashingIrreversibleWitness ==
    /\ call.op = "slash_validator"
    /\ call.result # "Ok"
    /\ call.index \in DOMAIN pre.validators
    /\ pre.validators[call.index].exit_epoch # FAR_FUTURE_EPOCH
    /\ pre.validators[call.index].slashed
    /\ state # pre

\* The last call was process_inactivity_updates on a record outside an
\* inactivity leak: previous_epoch - finalized_epoch is at most
\* MIN_EPOCHS_TO_INACTIVITY_PENALTY.
UpdatedOutsideLeak ==
    /\ call.op = "process_inactivity_updates"
    /\ get_previous_epoch(pre) - pre.finalized_checkpoint.epoch
           <= MIN_EPOCHS_TO_INACTIVITY_PENALTY

NoScoreIncrease ==
    UpdatedOutsideLeak =>
        \A i \in DOMAIN pre.inactivity_scores :
            state.inactivity_scores[i] <= pre.inactivity_scores[i]

EligibleScoresZero ==
    \A i \in DOMAIN state.validators :
        Eligible(state, i) => state.inactivity_scores[i] = 0

\* C21: outside an inactivity leak a call of process_inactivity_updates
\* never increases a validator's inactivity score; hence, while the chain
\* keeps finalizing, repeated epoch updates bring the score of every
\* eligible validator to 0 and keep it there.
InactivityRecovery == []NoScoreIncrease /\ <>[]EligibleScoresZero

\* An update outside a leak that lowered the score of an eligible
\* validator to 0 and left no eligible validator with a score.
InactivityRecoveryWitness ==
    /\ UpdatedOutsideLeak
    /\ get_current_epoch(pre) # GENESIS_EPOCH
    /\ \E i \in DOMAIN pre.validators :
          /\ Eligible(pre, i)
          /\ pre.inactivity_scores[i] > 0
          /\ state.inactivity_scores[i] = 0
    /\ EligibleScoresZero

====
